---- MODULE Spec2Model ----
(***************************************************************************)
(* Model of sd_controller (src/src/main.rs): SDController reads block 0 of *)
(* a raw device, decodes it as a FAT16 boot sector and derives the layout  *)
(* of the FAT, root directory and data regions; main() drives the three    *)
(* steps in sequence and prints the results.                               *)
(*                                                                         *)
(* Byte offsets are those of the source (0-based); a block is a sequence   *)
(* and byte k of it is block[k + 1].                                       *)
(***************************************************************************)
EXTENDS Integers, Sequences, FiniteSets

VARIABLES
    device,        \* bytes of the first block of the device file (SDController.device)
    controller,    \* the SDController built by new(), or kind "None"
    bytes_read,    \* read_block's local bytes_read of the latest read (-1: none, or seek/read failed)
    block_result,  \* result of main's read_block(0)
    boot_result,   \* result of read_boot_sector()
    total_sectors, \* the value main prints as "Total sectors" (-1: nothing printed)
    layout_result, \* outcome of calculate_layout()
    pc             \* position in main()

vars == <<device, controller, bytes_read, block_result, boot_result,
          total_sectors, layout_result, pc>>

-----------------------------------------------------------------------------
(* Bounds of the input domain *)

\* small field values 0..MaxSmall are tried next to the fixed edge values
MaxSmall == 1

\* block size set by SDController::new
BLOCK_SIZE == 512

\* width of one root directory entry in calculate_layout
DIR_ENTRY_BYTES == 32

-----------------------------------------------------------------------------
(* Values *)

None == [kind |-> "None"]

\* x fits a u32: 0 <= x < 2^32 (2^32 itself is written 65536 * 65536)
FitsU32(x) == x >= 0 /\ x \div 65536 < 65536

\* a decoder that takes the first byte as the high byte
u16_from_be_bytes(b0, b1) == 256 * b0 + b1

\* u16::from_le_bytes([b0, b1])
u16_from_le_bytes(b0, b1) == b0 + 256 * b1

\* u32::from_le_bytes([b0, b1, b2, b3])
u32_from_le_bytes(b0, b1, b2, b3) == b0 + 256 * b1 + 65536 * b2 + 16777216 * b3

\* data[k] of a Vec<u8>
At(data, k) == data[k + 1]

-----------------------------------------------------------------------------
(* Device contents and device behaviour tried by the model *)

\* values written at offsets 11-12 (bytes per sector) and 17-18 (root entries)
BytesPerSectorValues == (0..MaxSmall) \cup {512, 65535}
RootDirEntriesValues == (0..MaxSmall) \cup {512, 65535}
\* offsets 14-15, 16 and 22-23
ReservedSectorsValues == {0, 1, 65535}
NumberOfFatsValues == {0, 1, 2, 255}
SectorsPerFatValues == {0, 32, 65535}
\* offsets 19-20
TotalSectors16Values == {0, 100}
\* bytes at offsets 32, 33, 34, 35, 36; 32 161 7 0 is 500000 little-endian.
\* The top byte stays below 128 so that every decoded value is an integer
\* the model checker can represent.
TotalSectors32Bytes ==
    { <<0, 0, 0, 0, 0>>, <<32, 161, 7, 0, 0>>, <<32, 161, 7, 0, 127>>,
      <<32, 161, 7, 1, 0>> }
\* <<byte 13, byte 21, every byte that is not a decoded field>>
OtherBytes == { <<1, 248, 0>>, <<64, 240, 255>> }

SectorInputs ==
    [ bytes_per_sector : BytesPerSectorValues,
      reserved_sectors : ReservedSectorsValues,
      number_of_fats   : NumberOfFatsValues,
      root_dir_entries : RootDirEntriesValues,
      sectors_per_fat  : SectorsPerFatValues,
      total_sectors_16 : TotalSectors16Values,
      ts32             : TotalSectors32Bytes,
      other            : OtherBytes ]

\* the 512-byte block holding the input's values little-endian at the
\* BIOS Parameter Block offsets
MakeSector(f) ==
    [ i \in 1..BLOCK_SIZE |->
        LET k == i - 1 IN
        CASE k = 11 -> f.bytes_per_sector % 256
          [] k = 12 -> f.bytes_per_sector \div 256
          [] k = 13 -> f.other[1]
          [] k = 14 -> f.reserved_sectors % 256
          [] k = 15 -> f.reserved_sectors \div 256
          [] k = 16 -> f.number_of_fats
          [] k = 17 -> f.root_dir_entries % 256
          [] k = 18 -> f.root_dir_entries \div 256
          [] k = 19 -> f.total_sectors_16 % 256
          [] k = 20 -> f.total_sectors_16 \div 256
          [] k = 21 -> f.other[2]
          [] k = 22 -> f.sectors_per_fat % 256
          [] k = 23 -> f.sectors_per_fat \div 256
          [] k \in 32..36 -> f.ts32[k - 31]
          [] OTHER -> f.other[3] ]

Sectors == { MakeSector(f) : f \in SectorInputs }

\* byte counts a short read delivers
ShortReadCounts == {0, 20, 400, 511}

\* what seek + read can do for a request of block_size bytes at position:
\* fail with an io::Error, or deliver n <= block_size of the bytes available
DeviceOutcomes(dev, position, block_size) ==
    { [io_error |-> TRUE, n |-> -1] } \cup
    { [io_error |-> FALSE, n |-> n] :
        n \in { m \in ShortReadCounts \cup {block_size} :
                  m <= block_size /\ m <= Len(dev) - position } }

-----------------------------------------------------------------------------
(* SDController *)

\* SDController::new on a path that opens
new == [kind |-> "SDController", block_size |-> BLOCK_SIZE]

\* a read_block without the bytes_read check
read_block_unchecked(dev, self, block_index, outcome) ==
    IF outcome.io_error
      THEN [kind |-> "IO"]
      ELSE [kind |-> "Ok",
            data |-> [ i \in 1..self.block_size |->
                         IF i <= outcome.n
                           THEN dev[block_index * self.block_size + i]
                           ELSE 0 ]]

\* SDController::read_block, given what the device did
read_block(dev, self, block_index, outcome) ==
    LET position == block_index * self.block_size
        buffer == [ i \in 1..self.block_size |->
                      IF i <= outcome.n THEN dev[position + i] ELSE 0 ]
    IN  IF outcome.io_error
          THEN [kind |-> "IO"]
        ELSE IF outcome.n # self.block_size
          THEN [kind |-> "ReadError", expected |-> self.block_size,
                actual |-> outcome.n]
        ELSE [kind |-> "Ok", data |-> buffer]

\* highest index read_boot_sector takes of the block
MaxDecodeOffset == 36

\* the FATBootSector literal of read_boot_sector
decode_boot_sector(data) ==
    [ bytes_per_sector    |-> u16_from_le_bytes(At(data, 11), At(data, 12)),
      sectors_per_cluster |-> At(data, 13),
      reserved_sectors    |-> u16_from_le_bytes(At(data, 14), At(data, 15)),
      number_of_fats      |-> At(data, 16),
      root_dir_entries    |-> u16_from_le_bytes(At(data, 17), At(data, 18)),
      total_sectors_16    |-> u16_from_le_bytes(At(data, 19), At(data, 20)),
      media_descriptor    |-> At(data, 21),
      sectors_per_fat     |-> u16_from_le_bytes(At(data, 22), At(data, 23)),
      total_sectors_32    |-> u32_from_le_bytes(At(data, 32), At(data, 33),
                                                At(data, 34), At(data, 36)) ]

\* SDController::read_boot_sector: `?` hands back read_block's error; an
\* index past the end of the Vec panics
read_boot_sector(dev, self, outcome) ==
    LET r == read_block(dev, self, 0, outcome) IN
    IF r.kind # "Ok" THEN r
    ELSE IF Len(r.data) <= MaxDecodeOffset
      THEN [kind |-> "Panic", msg |-> "index out of bounds"]
    ELSE [kind |-> "Ok", boot_sector |-> decode_boot_sector(r.data)]

\* root_dir_sectors with the product taken in 16 bits, before widening
root_dir_sectors_u16(boot_sector) ==
    (((boot_sector.root_dir_entries * DIR_ENTRY_BYTES) % 65536) +
     (boot_sector.bytes_per_sector - 1)) \div boot_sector.bytes_per_sector

\* root_dir_sectors rounding down
root_dir_sectors_floor(boot_sector) ==
    (boot_sector.root_dir_entries * DIR_ENTRY_BYTES)
        \div boot_sector.bytes_per_sector

\* root_dir_sectors rounding up by always adding a sector
root_dir_sectors_plus_one(boot_sector) ==
    ((boot_sector.root_dir_entries * DIR_ENTRY_BYTES)
        \div boot_sector.bytes_per_sector) + 1

\* root_dir_sectors of calculate_layout, for bytes_per_sector >= 1
root_dir_sectors(boot_sector) ==
    ((boot_sector.root_dir_entries * DIR_ENTRY_BYTES) +
     (boot_sector.bytes_per_sector - 1)) \div boot_sector.bytes_per_sector

\* fat_start, root_dir_start and data_start of calculate_layout
fat_start(boot_sector) == boot_sector.reserved_sectors

root_dir_start(boot_sector) ==
    fat_start(boot_sector) +
        (boot_sector.number_of_fats * boot_sector.sectors_per_fat)

\* data_start counted from the start of the FAT instead of the root directory
data_start_from_fat(boot_sector) ==
    fat_start(boot_sector) + root_dir_sectors(boot_sector)

data_start(boot_sector) ==
    root_dir_start(boot_sector) + root_dir_sectors(boot_sector)

\* SDController::calculate_layout in u32 arithmetic. overflow_checks is the
\* build's setting: with it an overflowing operation panics, without it the
\* operation wraps modulo 2^32. With bytes_per_sector = 0 the subtraction
\* 0 - 1 overflows; where it wraps, the division by zero that follows panics.
calculate_layout(boot_sector, overflow_checks) ==
    IF boot_sector.bytes_per_sector - 1 < 0 /\ overflow_checks
      THEN [kind |-> "Panic", msg |-> "attempt to subtract with overflow"]
    ELSE IF boot_sector.bytes_per_sector = 0
      THEN [kind |-> "Panic", msg |-> "attempt to divide by zero"]
    ELSE IF /\ FitsU32(boot_sector.root_dir_entries * DIR_ENTRY_BYTES)
            /\ FitsU32((boot_sector.root_dir_entries * DIR_ENTRY_BYTES) +
                       (boot_sector.bytes_per_sector - 1))
            /\ FitsU32(boot_sector.number_of_fats * boot_sector.sectors_per_fat)
            /\ FitsU32(root_dir_start(boot_sector))
            /\ FitsU32(data_start(boot_sector))
      THEN [kind |-> "Ok",
            layout |-> [ fat_start      |-> fat_start(boot_sector),
                         root_dir_start |-> root_dir_start(boot_sector),
                         data_start     |-> data_start(boot_sector) ]]
    ELSE IF overflow_checks
      THEN [kind |-> "Panic", msg |-> "arithmetic overflow"]
    ELSE [kind |-> "Wrapped"]

\* a total that ignores the 16-bit field
effective_total_sectors_32_only(boot_sector) == boot_sector.total_sectors_32

\* the "Total sectors" value main prints
effective_total_sectors(boot_sector) ==
    IF boot_sector.total_sectors_16 > 0
      THEN boot_sector.total_sectors_16
      ELSE boot_sector.total_sectors_32

-----------------------------------------------------------------------------
(* main *)

Init ==
    /\ device \in Sectors
    /\ controller = None
    /\ bytes_read = -1
    /\ block_result = None
    /\ boot_result = None
    /\ total_sectors = -1
    /\ layout_result = None
    /\ pc = "new"

\* let mut controller = SDController::new(path)?  -- the device opens
NewOk ==
    /\ pc = "new"
    /\ controller' = new
    /\ pc' = "read_block"
    /\ UNCHANGED <<device, bytes_read, block_result, boot_result,
                   total_sectors, layout_result>>

\* File::open fails: `?` makes main return the IO error
NewErr ==
    /\ pc = "new"
    /\ pc' = "exit_err"
    /\ UNCHANGED <<device, controller, bytes_read, block_result, boot_result,
                   total_sectors, layout_result>>

\* match controller.read_block(0): both arms only print
MainReadBlock ==
    /\ pc = "read_block"
    /\ \E outcome \in DeviceOutcomes(device, 0, controller.block_size) :
         /\ bytes_read' = outcome.n
         /\ block_result' = read_block(device, controller, 0, outcome)
    /\ pc' = "read_boot_sector"
    /\ UNCHANGED <<device, controller, boot_result, total_sectors,
                   layout_result>>

\* match controller.read_boot_sector(): the Err arm prints and main ends
MainReadBootSector ==
    /\ pc = "read_boot_sector"
    /\ \E outcome \in DeviceOutcomes(device, 0, controller.block_size) :
         /\ bytes_read' = outcome.n
         /\ boot_result' = read_boot_sector(device, controller, outcome)
    /\ pc' = CASE boot_result'.kind = "Ok" -> "report"
               [] boot_result'.kind = "Panic" -> "panicked"
               [] OTHER -> "done"
    /\ UNCHANGED <<device, controller, block_result, total_sectors,
                   layout_result>>

\* the Ok arm prints the fields and the total sector count
MainReport ==
    /\ pc = "report"
    /\ total_sectors' = effective_total_sectors(boot_result.boot_sector)
    /\ pc' = "calculate_layout"
    /\ UNCHANGED <<device, controller, bytes_read, block_result, boot_result,
                   layout_result>>

\* let layout = controller.calculate_layout(&boot_sector), then its printing
MainCalculateLayout ==
    /\ pc = "calculate_layout"
    /\ \E overflow_checks \in BOOLEAN :
         layout_result' = calculate_layout(boot_result.boot_sector,
                                           overflow_checks)
    /\ pc' = IF layout_result'.kind = "Panic" THEN "panicked" ELSE "done"
    /\ UNCHANGED <<device, controller, bytes_read, block_result, boot_result,
                   total_sectors>>

Next ==
    \/ NewOk
    \/ NewErr
    \/ MainReadBlock
    \/ MainReadBootSector
    \/ MainReport
    \/ MainCalculateLayout

Spec == Init /\ [][Next]_vars

-----------------------------------------------------------------------------
(* Properties *)

\* the boot sector read_boot_sector returned, and the layout computed from it
Decoded == boot_result.kind = "Ok"
bs == boot_result.boot_sector
LayoutRan == layout_result.kind # "None"
LayoutOk == layout_result.kind = "Ok"
layout == layout_result.layout

\* ceil(a / b) for b >= 1
CeilDiv(a, b) == IF a % b = 0 THEN a \div b ELSE (a \div b) + 1

\* the error kinds of SDError that report a device failure
DeviceErrorKinds == {"IO", "DeviceNotFound", "ReadError"}

\* C1: with bytesPerSector = 0, calculate_layout returns an invalid-geometry
\* error: it does not fault and returns no layout.
C1_ZeroBytesPerSectorRejected ==
    (LayoutRan /\ bs.bytes_per_sector = 0)
        => layout_result.kind = "InvalidGeometry"

\* C2: the decoded totalSectors32 is the little-endian value of the four
\* contiguous bytes at offsets 32, 33, 34 and 35.
C2_TotalSectors32Contiguous ==
    Decoded =>
        bs.total_sectors_32 =
            At(device, 32) + 256 * At(device, 33) + 65536 * At(device, 34)
                + 16777216 * At(device, 35)

\* C3: the fields at offsets 11-23 round-trip: each decoded u16 field is in
\* range and its little-endian bytes are the two bytes at its offset, each
\* decoded u8 field is the byte at its offset, whatever the other bytes of
\* the sector are; bytes 0x00 0x02 at offsets 11-12 decode to 512.
C3_BpbRoundTrip ==
    Decoded =>
        /\ \A fo \in { <<bs.bytes_per_sector, 11>>, <<bs.reserved_sectors, 14>>,
                       <<bs.root_dir_entries, 17>>, <<bs.total_sectors_16, 19>>,
                       <<bs.sectors_per_fat, 22>> } :
              /\ fo[1] \in 0..65535
              /\ fo[1] % 256 = At(device, fo[2])
              /\ fo[1] \div 256 = At(device, fo[2] + 1)
        /\ bs.sectors_per_cluster = At(device, 13)
        /\ bs.number_of_fats = At(device, 16)
        /\ bs.media_descriptor = At(device, 21)
        /\ (At(device, 11) = 0 /\ At(device, 12) = 2
                => bs.bytes_per_sector = 512)

C3_Witness ==
    /\ Decoded
    /\ At(device, 11) = 0 /\ At(device, 12) = 2 /\ bs.bytes_per_sector = 512
    /\ bs.sectors_per_fat = 32 /\ bs.media_descriptor = 240
    /\ At(device, 0) = 255 /\ At(device, 36) = 127

\* C4: with bytesPerSector >= 1, calculate_layout returns exactly
\* fatStart = reservedSectors, rootDirStart = fatStart + numberOfFats *
\* sectorsPerFat and dataStart = rootDirStart + ceil(rootDirEntries * 32 /
\* bytesPerSector), as exact integers; 1, 2, 32, 512, 512 gives 1, 65, 97.
C4_LayoutExact ==
    (LayoutRan /\ bs.bytes_per_sector >= 1) =>
        /\ LayoutOk
        /\ layout.fat_start = bs.reserved_sectors
        /\ layout.root_dir_start =
               bs.reserved_sectors + bs.number_of_fats * bs.sectors_per_fat
        /\ layout.data_start =
               bs.reserved_sectors + bs.number_of_fats * bs.sectors_per_fat
                   + CeilDiv(bs.root_dir_entries * 32, bs.bytes_per_sector)
        /\ ( ( /\ bs.reserved_sectors = 1 /\ bs.number_of_fats = 2
               /\ bs.sectors_per_fat = 32 /\ bs.root_dir_entries = 512
               /\ bs.bytes_per_sector = 512 )
             => layout = [fat_start |-> 1, root_dir_start |-> 65,
                          data_start |-> 97] )

C4_Witness ==
    /\ LayoutOk
    /\ bs.root_dir_entries = 65535 /\ bs.bytes_per_sector = 1
    /\ bs.number_of_fats = 255 /\ bs.sectors_per_fat = 65535
    /\ bs.reserved_sectors = 65535
    /\ layout.data_start = 65535 + 16711425 + 2097120

\* C5 as stated: with numberOfFats >= 1 and rootDirEntries >= 1 (and
\* bytesPerSector >= 1), fatStart < rootDirStart < dataStart.
C5_StrictlyIncreasing ==
    (LayoutOk /\ bs.number_of_fats >= 1 /\ bs.root_dir_entries >= 1)
        => (layout.fat_start < layout.root_dir_start
            /\ layout.root_dir_start < layout.data_start)

\* C5 amended: with numberOfFats >= 1, sectorsPerFat >= 1 and
\* rootDirEntries >= 1 (and bytesPerSector >= 1), every layout returned has
\* fatStart < rootDirStart < dataStart.
C5_StrictlyIncreasingWithFatSectors ==
    ( /\ LayoutRan /\ bs.bytes_per_sector >= 1
      /\ bs.number_of_fats >= 1 /\ bs.sectors_per_fat >= 1
      /\ bs.root_dir_entries >= 1 )
        => ( /\ LayoutOk
             /\ layout.fat_start < layout.root_dir_start
             /\ layout.root_dir_start < layout.data_start )

C5_Witness ==
    /\ LayoutOk
    /\ bs.number_of_fats = 1 /\ bs.sectors_per_fat = 32
    /\ bs.root_dir_entries = 1 /\ bs.bytes_per_sector = 65535
    /\ layout.data_start = layout.root_dir_start + 1

\* C6: every layout returned has fatStart <= rootDirStart <= dataStart, both
\* strict whenever numberOfFats * sectorsPerFat > 0 and rootDirEntries > 0.
C6_Ordered ==
    LayoutOk =>
        /\ layout.fat_start <= layout.root_dir_start
        /\ layout.root_dir_start <= layout.data_start
        /\ ( (bs.number_of_fats * bs.sectors_per_fat > 0
              /\ bs.root_dir_entries > 0)
             => ( layout.fat_start # layout.root_dir_start
                  /\ layout.root_dir_start # layout.data_start ) )

C6_Witness ==
    /\ LayoutOk
    /\ bs.number_of_fats = 255 /\ bs.sectors_per_fat = 65535
    /\ bs.root_dir_entries = 1 /\ bs.bytes_per_sector = 512
    /\ layout.fat_start < layout.root_dir_start
    /\ layout.root_dir_start < layout.data_start

\* C7: a read of block 0 that delivers fewer than 512 bytes makes read_block
\* return the short-read error with expected = 512 and actual = the bytes
\* read; read_boot_sector returns that same error and decodes nothing;
\* read_block returns a buffer only when exactly 512 bytes were read.
C7_ShortReadPropagates ==
    /\ pc = "read_boot_sector" =>
          /\ (bytes_read >= 0 /\ bytes_read < 512) =>
                 block_result = [kind |-> "ReadError", expected |-> 512,
                                 actual |-> bytes_read]
          /\ block_result.kind = "Ok" =>
                 (bytes_read = 512 /\ block_result.data = device)
    /\ (boot_result.kind # "None" /\ bytes_read >= 0 /\ bytes_read < 512) =>
          /\ boot_result = [kind |-> "ReadError", expected |-> 512,
                            actual |-> bytes_read]
          /\ total_sectors = -1
          /\ layout_result = None
          /\ pc = "done"
    /\ Decoded => bytes_read = 512

C7_Witness ==
    /\ pc = "done"
    /\ bytes_read = 400
    /\ boot_result = [kind |-> "ReadError", expected |-> 512, actual |-> 400]
    /\ block_result.kind = "Ok"

C9_NoRootDirEntries ==
    (LayoutRan /\ bs.bytes_per_sector >= 1 /\ bs.root_dir_entries = 0) =>
        /\ LayoutOk
        /\ layout.data_start - layout.root_dir_start = 0
        /\ layout.root_dir_start = layout.data_start

C9_Witness ==
    /\ LayoutOk
    /\ bs.root_dir_entries = 0 /\ bs.bytes_per_sector = 65535
    /\ bs.number_of_fats = 2 /\ bs.sectors_per_fat = 32
    /\ layout.root_dir_start = layout.data_start

\* C10: the total sector count printed for a decoded boot sector is its
\* totalSectors16 when that is > 0 and its totalSectors32 otherwise;
\* (100, 0) prints 100 and (0, 500000) prints 500000.
C10_EffectiveTotal ==
    total_sectors # -1 =>
        /\ bs.total_sectors_16 > 0 => total_sectors = bs.total_sectors_16
        /\ bs.total_sectors_16 = 0 => total_sectors = bs.total_sectors_32
        /\ (bs.total_sectors_16 = 100 /\ bs.total_sectors_32 = 0)
               => total_sectors = 100
        /\ (bs.total_sectors_16 = 0 /\ bs.total_sectors_32 = 500000)
               => total_sectors = 500000

C10_Witness ==
    /\ total_sectors = 500000
    /\ bs.total_sectors_16 = 0 /\ bs.total_sectors_32 = 500000

====
